---- MODULE Spec2Model ----
(***************************************************************************)
(* UFEDKMLstacker.py as a state machine: the main_menu loop (list, select,  *)
(* overwrite prompt, metadata capture, integrity check, color assignment,  *)
(* remarks, merge, map, statistics), the files of the working directory    *)
(* and an outside writer that may change a source file at any moment.      *)
(*                                                                         *)
(* Abstractions.  A file name is a number.  A text (TimeStamp/when, name,  *)
(* description) is what the extractor asks of it: whether it holds the     *)
(* token "UTC" and whether parse_timestamp returns a datetime for it.  A   *)
(* SHA-256 digest is the hashed content under a tag (no collisions).  A    *)
(* hex color "#RRGGBB" is the pair <<"#", "RRGGBB">>.                      *)
(***************************************************************************)
EXTENDS Integers, Sequences, FiniteSets, TLC

MAX_KML_FILES == 10

\* Bounds of the model.
MaxAvail == 2          \* .kml files in the working directory
MaxTokens == 2         \* comma-separated tokens of a typed selection
MaxWrites == 1         \* writes of the outside writer
MaxRuns == 2           \* iterations of main_menu's while loop
MaxAssign == 3         \* length of the lists with repeats handed to assign_colors_to_files

None == "None"

(***************************************************************************)
(* Texts, placemarks, file contents                                        *)
(***************************************************************************)
\* A text: utc = the token "UTC" occurs in it, parses = parse_timestamp
\* returns a datetime for it.
Text(utc, parses) == [utc |-> utc, parses |-> parses]

Plain == Text(FALSE, FALSE)

\* when: "none" (no TimeStamp element, or no/empty when), "bad", "good".
\* coords: "none" (no coordinates element), "empty" (element without text),
\* "short" (fewer than two components), "nonnum" (float() raises), "ok".
Placemark(when, name, desc, coords) ==
    [when |-> when, name |-> name, desc |-> desc, tagged |-> TRUE, coords |-> coords]

\* A file: its placemarks in document order; broken = the XML is malformed
\* after them (iterparse delivers them, then raises XMLSyntaxError).
Content(pms, broken) == [pms |-> pms, broken |-> broken]

pmA == Placemark("good", Plain, Plain, "ok")
pmB == Placemark("none", Plain, Plain, "none")
pmTsNoCoords == Placemark("good", Plain, Plain, "none")
pmDesc == Placemark("none", Plain, Text(TRUE, TRUE), "ok")

\* What the files of the working directory hold at the start, and what the
\* outside writer makes of a file.
InitialContent(file) ==
    IF file % 3 = 1 THEN Content(<<pmA>>, FALSE)
    ELSE IF file % 3 = 2 THEN Content(<<pmB>>, FALSE)
    ELSE Content(<<pmDesc, pmB>>, FALSE)

Rewritten(content) ==
    IF content = Content(<<pmA>>, FALSE) THEN Content(<<pmTsNoCoords>>, FALSE)
    ELSE IF content = Content(<<pmTsNoCoords>>, FALSE) THEN Content(<<pmB, pmA>>, FALSE)
    ELSE Content(<<pmA>>, FALSE)

Remarks == {"phone"}

(***************************************************************************)
(* clean_html_tags, parse_timestamp                                        *)
(***************************************************************************)
\* re.sub('<.*?>', '', text): the markup goes, the rest of the text stays.
clean_html_tags(desc, tagged) == [text |-> desc, tagged |-> FALSE]

\* The datetime is named by the text it was parsed from.
parse_timestamp(text, source) == IF text.parses THEN source ELSE None

\* f"({remark}) - {name}"
PrefixedName(remark, name) == [remark |-> remark, name |-> name]

RemarkHasUTC(remark) == remark = "UTC+1"

NameHasUTC(pname) == RemarkHasUTC(pname.remark) \/ pname.name.utc

(***************************************************************************)
(* process_kml_file                                                        *)
(***************************************************************************)
\* Locals of process_kml_file before the first placemark.  coords_bound:
\* whether the local name coords has been assigned; raised: an exception left
\* the for loop (all three except clauses log and fall through to the return).
ExtractStart ==
    [total_points |-> 0, points_with_timestamps |-> 0, valid_points |-> <<>>,
     seen |-> 0, coords_bound |-> FALSE, raised |-> FALSE]

\* Lines 467-483: TimeStamp/when first, then the name if it holds "UTC",
\* else the cleaned description if it holds "UTC".
RecoverTimestamp(pm, pname, description_text) ==
    LET fromWhen == IF pm.when = "none" THEN None
                    ELSE parse_timestamp(Text(FALSE, pm.when = "good"), "when")
    IN  IF fromWhen # None THEN fromWhen
        ELSE IF NameHasUTC(pname) THEN parse_timestamp(pname.name, "name")
        ELSE IF description_text.text.utc
             THEN parse_timestamp(description_text.text, "description")
        ELSE None

\* One iteration of the for loop (lines 461-504).
HandlePlacemark(acc, pm, remark) ==
    LET pname == PrefixedName(remark, pm.name)
        description_text == clean_html_tags(pm.desc, pm.tagged)
        timestamp == RecoverTimestamp(pm, pname, description_text)
        pwt == IF timestamp # None THEN acc.points_with_timestamps + 1
               ELSE acc.points_with_timestamps
        counted == [acc EXCEPT !.points_with_timestamps = pwt, !.seen = @ + 1]
        point == [lon_lat |-> acc.seen + 1, timestamp |-> timestamp,
                  name |-> pname, description |-> description_text]
    IN  CASE pm.coords = "empty" ->
                \* coordinates_elem.text is None: AttributeError on .strip()
                [counted EXCEPT !.raised = TRUE]
          [] pm.coords = "nonnum" ->
                \* float() raises ValueError
                [counted EXCEPT !.coords_bound = TRUE, !.raised = TRUE]
          [] pm.coords = "ok" ->
                [counted EXCEPT !.coords_bound = TRUE,
                                !.valid_points = Append(@, point),
                                !.total_points = @ + 1]
          [] pm.coords = "short" ->
                [counted EXCEPT !.coords_bound = TRUE]
          [] OTHER ->
                \* no coordinates element: the logging call reads coords, which
                \* is unbound unless an earlier placemark assigned it
                IF acc.coords_bound THEN counted
                ELSE [counted EXCEPT !.raised = TRUE]

RECURSIVE IterParse(_, _, _)
IterParse(acc, pms, remark) ==
    IF pms = <<>> \/ acc.raised THEN acc
    ELSE IterParse(HandlePlacemark(acc, Head(pms), remark), Tail(pms), remark)

\* The locals when the try block is left: after the last placemark a broken
\* document raises XMLSyntaxError.
ExtractEnd(content, remark) ==
    LET acc == IterParse(ExtractStart, content.pms, remark)
    IN  IF content.broken THEN [acc EXCEPT !.raised = TRUE] ELSE acc

process_kml_file(content, remark) ==
    LET acc == ExtractEnd(content, remark)
    IN  [total_points |-> acc.total_points,
         points_with_timestamps |-> acc.points_with_timestamps,
         valid_points |-> acc.valid_points]

\* The exception that leaves the try block, None when the block ends normally.
RaisedIn(content, remark) ==
    LET acc == IterParse(ExtractStart, content.pms, remark)
    IN  IF acc.raised
        THEN LET pm == content.pms[acc.seen]
             IN  CASE pm.coords = "empty" -> "AttributeError"
                   [] pm.coords = "nonnum" -> "ValueError"
                   [] OTHER -> "UnboundLocalError"
        ELSE IF content.broken THEN "XMLSyntaxError"
        ELSE None

\* Mutant of ExceptClauses: the clause "except Exception" is missing.
ExceptClausesNarrow == {"XMLSyntaxError", "OSError"}

\* Lines 506-511: what the three except clauses catch.  "except Exception"
\* takes every exception that the first two clauses leave.
ExceptClauses ==
    {"XMLSyntaxError", "OSError",
     "AttributeError", "ValueError", "UnboundLocalError"}

\* The exception leaves process_kml_file and, nothing in merge_kml_files or
\* main_menu catching it, ends the process.
Propagates(content, remark) ==
    RaisedIn(content, remark) \notin ExceptClauses \cup {None}

(***************************************************************************)
(* calculate_file_hash, extract_file_metadata, verify_file_integrity       *)
(***************************************************************************)
calculate_file_hash(content) == [sha256 |-> content]

extract_file_metadata(content) ==
    [sha256 |-> calculate_file_hash(content), file_size |-> Len(content.pms)]

verify_file_integrity(content, expected_hash) ==
    calculate_file_hash(content) = expected_hash

(***************************************************************************)
(* Ordered dictionaries (Python dict: insertion order, last value wins)    *)
(***************************************************************************)
Keys(d) == {d[i].key : i \in 1..Len(d)}

Get(d, k) == (CHOOSE i \in 1..Len(d) : d[i].key = k) \* index
Lookup(d, k) == d[Get(d, k)].val

Put(d, k, v) ==
    IF k \in Keys(d) THEN [d EXCEPT ![Get(d, k)].val = v]
    ELSE Append(d, [key |-> k, val |-> v])

(***************************************************************************)
(* assign_colors_to_files, define_styles                                   *)
(***************************************************************************)
Hex(rgb) == <<"#", rgb>>

\* COLORS, in the dict's order (lines 287-291).
COLORS ==
    << [name |-> "red", hex |-> Hex("FF0000")],
       [name |-> "blue", hex |-> Hex("0000FF")],
       [name |-> "yellow", hex |-> Hex("FFFF00")],
       [name |-> "green", hex |-> Hex("00FF00")],
       [name |-> "orange", hex |-> Hex("FFA500")],
       [name |-> "violet", hex |-> Hex("EE82EE")],
       [name |-> "pink", hex |-> Hex("FFC0CB")],
       [name |-> "purple", hex |-> Hex("800080")],
       [name |-> "turquoise", hex |-> Hex("40E0D0")],
       [name |-> "cyan", hex |-> Hex("00FFFF")] >>

\* color_name_map.get(color, "Unknown")
ColorName(hex) ==
    IF \E i \in 1..Len(COLORS) : COLORS[i].hex = hex
    THEN COLORS[CHOOSE i \in 1..Len(COLORS) : COLORS[i].hex = hex].name
    ELSE "Unknown"

\* list(COLORS.values())[i] raises IndexError past the palette.
IndexErrorInAssign(files) == Len(files) > Len(COLORS)

\* {files[i]: list(COLORS.values())[i] for i in range(len(files))}
RECURSIVE ColorMapUpTo(_, _)
ColorMapUpTo(files, n) ==
    IF n = 0 THEN <<>>
    ELSE Put(ColorMapUpTo(files, n - 1), files[n], COLORS[n].hex)

\* Mutant of ColorMapOf: the palette is indexed from its other end.
ColorMapReversed(files) ==
    [i \in 1..Len(files) |->
        [key |-> files[i], val |-> COLORS[Len(COLORS) - i + 1].hex]]

ColorMapOf(files) == ColorMapUpTo(files, Len(files))

\* The lines written to color_mapping.txt (lines 296-299).
LegendOf(cmap) ==
    [i \in 1..Len(cmap) |->
        [file |-> cmap[i].key, color |-> cmap[i].val, color_name |-> ColorName(cmap[i].val)]]

\* color.replace("#", "ff")
KmlColor(hex) == <<"ff", hex[2]>>

\* Mutant of define_styles: the loop stops one item early.
define_styles_short(cmap) ==
    [i \in 1..(Len(cmap) - 1) |-> [id |-> cmap[i].key, color |-> KmlColor(cmap[i].val)]]

\* One Style element per item of color_map, in its order (lines 336-343).
define_styles(cmap) ==
    [i \in 1..Len(cmap) |-> [id |-> cmap[i].key, color |-> KmlColor(cmap[i].val)]]

(***************************************************************************)
(* State                                                                   *)
(***************************************************************************)
VARIABLES
    dir_files,          \* os.listdir(base_path), the .kml files but the merged one
    disk,               \* content of each source file
    islink,             \* os.path.islink(os.path.abspath(file))
    cwd_in_base,        \* os.path.commonpath([base_dir, abspath(file)]) == base_dir
    out,                \* per output artifact: 0 while absent, else the iteration
                        \* of the while loop that wrote it last
    pc,                 \* position in main_menu
    runs,               \* iterations of the while loop begun
    writes,             \* writes of the outside writer so far
    kml_files, selected_files, file_metadata, color_map, remarks,
    statistics, document, merge_metadata, idx,
    total_valid_points, total_mapped_points,
    exit_status,        \* -1 while the process runs
    exit_way,           \* which statement ended the process
    run_writes,         \* history: what this iteration wrote to each artifact,
                        \* one entry per write
    processed,          \* history: digest of the content each extraction read
    reprompt            \* select_kml_files: what the pass of the while loop that
                        \* led to the current prompt complained of, "" at the
                        \* first prompt

env == <<dir_files, islink, cwd_in_base>>
locals == <<kml_files, selected_files, file_metadata, color_map, remarks,
            statistics, document, merge_metadata, idx,
            total_valid_points, total_mapped_points>>
vars == <<dir_files, disk, islink, cwd_in_base, out, pc, runs, writes,
          kml_files, selected_files, file_metadata, color_map, remarks,
          statistics, document, merge_metadata, idx,
          total_valid_points, total_mapped_points,
          exit_status, exit_way, run_writes, processed, reprompt>>

Range(s) == {s[i] : i \in 1..Len(s)}

Artifacts == {"legend", "merged", "map", "excel", "csv"}
NoOutput == [a \in Artifacts |-> 0]
NoWrites == [a \in Artifacts |-> <<>>]
EmptyDocument == [styles |-> <<>>, placemarks |-> <<>>]

\* The names main_menu binds in one iteration, before their first assignment.
FreshLocals ==
    /\ kml_files = <<>>
    /\ selected_files = <<>>
    /\ file_metadata = <<>>
    /\ color_map = <<>>
    /\ remarks = <<>>
    /\ statistics = <<>>
    /\ document = EmptyDocument
    /\ merge_metadata = <<>>
    /\ idx = 0
    /\ total_valid_points = 0
    /\ total_mapped_points = 0

Init ==
    /\ \E n \in 0..MaxAvail : dir_files = [i \in 1..n |-> i]
    /\ disk = [f \in Range(dir_files) |-> InitialContent(f)]
    /\ islink \in [Range(dir_files) -> BOOLEAN]
    /\ cwd_in_base \in BOOLEAN
    /\ out = NoOutput
    /\ pc = "list"
    /\ runs = 0
    /\ writes = 0
    /\ FreshLocals
    /\ exit_status = -1
    /\ exit_way = ""
    /\ run_writes = NoWrites
    /\ processed = <<>>
    /\ reprompt = ""

(***************************************************************************)
(* validate_file_path, validate_selection                                  *)
(***************************************************************************)
\* Mutant of validate_file_path: the symbolic-link test is missing.
validate_file_path_nolink(file) == cwd_in_base

validate_file_path(file) ==
    IF islink[file] THEN FALSE
    ELSE cwd_in_base

\* A typed selection.  kind: "e", "empty" (nothing but blanks), "bad" (the
\* regex ^[\d,\s]+$ rejects it) or "list"; a token of a list is the number
\* int() makes of it, or -1 where int() raises ValueError.
SelectionInputs(n) ==
    {[kind |-> k, tokens |-> <<>>] : k \in {"e", "empty", "bad"}}
    \cup {[kind |-> "list", tokens |-> t] :
            t \in UNION {[1..m -> -1..(n + 1)] : m \in 1..MaxTokens}}

Rejected == [ok |-> FALSE, files |-> <<>>]

\* The for loop of lines 147-152: the first token that int() or the range
\* check rejects ends validate_selection.
RECURSIVE TokensAccepted(_, _, _)
TokensAccepted(tokens, n, available) ==
    IF n = 0 THEN TRUE
    ELSE /\ TokensAccepted(tokens, n - 1, available)
         /\ tokens[n] # -1
         /\ ~(tokens[n] < 1 \/ tokens[n] > Len(available))

\* Mutant of validate_selection: the test for fewer than two entries is
\* missing.
validate_selection_nomin(selection, available) ==
    IF selection.kind # "list" THEN Rejected
    ELSE IF ~TokensAccepted(selection.tokens, Len(selection.tokens), available)
    THEN Rejected
    ELSE LET picked == [i \in 1..Len(selection.tokens) |-> available[selection.tokens[i]]]
         IN  IF Len(picked) > MAX_KML_FILES THEN Rejected
             ELSE [ok |-> TRUE, files |-> picked]

validate_selection(selection, available) ==
    IF selection.kind # "list" THEN Rejected
    ELSE IF ~TokensAccepted(selection.tokens, Len(selection.tokens), available)
    THEN Rejected
    ELSE LET picked == [i \in 1..Len(selection.tokens) |-> available[selection.tokens[i]]]
         IN  IF Len(picked) > MAX_KML_FILES THEN Rejected
             ELSE IF Len(picked) < 2 THEN Rejected
             ELSE [ok |-> TRUE, files |-> picked]

\* What validate_selection prints before it returns None (lines 143, 150,
\* 155, 160, 166).  A token that int() rejects raises ValueError, which the
\* except clause of line 165 turns into a message.
Complaint(selection, available) ==
    IF selection.kind # "list" THEN "format"
    ELSE LET tokens == selection.tokens
             bad == {i \in 1..Len(tokens) :
                        tokens[i] = -1 \/ tokens[i] < 1 \/ tokens[i] > Len(available)}
         IN  IF bad # {}
             THEN LET first == CHOOSE i \in bad : \A j \in bad : i <= j
                  IN  IF tokens[first] = -1 THEN "value" ELSE "range"
             ELSE IF Len(tokens) > MAX_KML_FILES THEN "too_many"
             ELSE "too_few"

(***************************************************************************)
(* main_menu, one action per stage                                         *)
(***************************************************************************)
Running == pc # "exited"

\* The status of each statement that ends the process: exit(0) in
\* list_kml_files, sys.exit(0) for 'e' and for CTRL+C, sys.exit(1) after a
\* failed integrity check; an uncaught exception ends the interpreter with 1.
ExitStatus(way) ==
    CASE way = "no_files" -> 0
      [] way = "user" -> 0
      [] way = "interrupt" -> 0
      [] way = "integrity" -> 1
      [] OTHER -> 1

Exit(status, way) ==
    /\ pc' = "exited"
    /\ exit_status' = status
    /\ exit_way' = way

KeepExit == UNCHANGED <<exit_status, exit_way>>

\* Lines 680-683 and list_kml_files.  The names of the previous iteration are
\* all rebound before they are read again.
ListFiles ==
    /\ pc = "list"
    /\ runs < MaxRuns
    /\ runs' = runs + 1
    /\ kml_files' = dir_files
    /\ selected_files' = <<>>
    /\ file_metadata' = <<>>
    /\ color_map' = <<>>
    /\ remarks' = <<>>
    /\ statistics' = <<>>
    /\ document' = EmptyDocument
    /\ merge_metadata' = <<>>
    /\ idx' = 0
    /\ total_valid_points' = 0
    /\ total_mapped_points' = 0
    /\ run_writes' = NoWrites
    /\ processed' = <<>>
    /\ IF dir_files = <<>>
       THEN Exit(ExitStatus("no_files"), "no_files")
       ELSE pc' = "select" /\ KeepExit
    /\ UNCHANGED <<env, reprompt, disk, out, writes>>

\* One pass of the while loop of select_kml_files.
SelectFiles(selection) ==
    /\ pc = "select"
    /\ CASE selection.kind = "e" ->
              /\ Exit(ExitStatus("user"), "user")
              /\ UNCHANGED <<selected_files, reprompt>>
         [] selection.kind = "empty" ->
              /\ selected_files' =
                    IF Len(kml_files) > MAX_KML_FILES
                    THEN SubSeq(kml_files, 1, MAX_KML_FILES)
                    ELSE kml_files
              /\ reprompt' = ""
              /\ pc' = "check_existing"
              /\ KeepExit
         [] OTHER ->
              LET chosen == validate_selection(selection, kml_files)
                  valid_files == SelectSeq(chosen.files, validate_file_path)
              IN  IF chosen.ok /\ ~(Len(valid_files) < Len(chosen.files))
                  THEN /\ selected_files' = valid_files
                       /\ reprompt' = ""
                       /\ pc' = "check_existing"
                       /\ KeepExit
                  ELSE /\ reprompt' = IF chosen.ok THEN "path"
                                      ELSE Complaint(selection, kml_files)
                       /\ UNCHANGED <<selected_files, pc, exit_status, exit_way>>
    /\ UNCHANGED <<env, disk, out, runs, writes, kml_files, file_metadata,
                   color_map, remarks, statistics, document, merge_metadata, idx,
                   total_valid_points, total_mapped_points, run_writes, processed>>

select_kml_files == \E selection \in SelectionInputs(Len(kml_files)) : SelectFiles(selection)

\* check_existing_merged_file returns False: continue
DeclineOverwrite ==
    /\ pc = "check_existing"
    /\ out.merged # 0
    /\ pc' = "list"
    /\ UNCHANGED <<env, reprompt, disk, out, runs, writes, locals, exit_status, exit_way,
                   run_writes, processed>>

\* check_existing_merged_file returns True
check_existing_merged_file ==
    /\ pc = "check_existing"
    /\ pc' = "capture"
    /\ UNCHANGED <<env, reprompt, disk, out, runs, writes, locals, exit_status, exit_way,
                   run_writes, processed>>

\* Line 689
CaptureMetadata ==
    /\ pc = "capture"
    /\ file_metadata' = [f \in Range(selected_files) |-> extract_file_metadata(disk[f])]
    /\ pc' = "verify"
    /\ UNCHANGED <<env, reprompt, disk, out, runs, writes, kml_files, selected_files,
                   color_map, remarks, statistics, document, merge_metadata, idx,
                   total_valid_points, total_mapped_points, exit_status, exit_way,
                   run_writes, processed>>

IntegrityFailure ==
    \E i \in 1..Len(selected_files) :
        ~verify_file_integrity(disk[selected_files[i]],
                               file_metadata[selected_files[i]].sha256)

\* Mutant of VerifyFiles: the check runs after the legend has been written.
VerifyFilesLate ==
    /\ pc = "verify"
    /\ IF IntegrityFailure
       THEN /\ Exit(ExitStatus("integrity"), "integrity")
            /\ out' = [out EXCEPT !.legend = runs]
            /\ run_writes' = [run_writes EXCEPT !.legend = Append(@, <<>>)]
       ELSE /\ pc' = "assign"
            /\ KeepExit
            /\ UNCHANGED <<out, run_writes>>
    /\ UNCHANGED <<env, reprompt, disk, runs, writes, locals, processed>>

\* Lines 691-696
VerifyFiles ==
    /\ pc = "verify"
    /\ IF IntegrityFailure
       THEN Exit(ExitStatus("integrity"), "integrity")
       ELSE pc' = "assign" /\ KeepExit
    /\ UNCHANGED <<env, reprompt, disk, out, runs, writes, locals, run_writes, processed>>

\* Line 698
assign_colors_to_files ==
    /\ pc = "assign"
    /\ IF IndexErrorInAssign(selected_files)
       THEN /\ Exit(ExitStatus("crash"), "crash")
            /\ UNCHANGED <<color_map, out, run_writes>>
       ELSE /\ color_map' = ColorMapOf(selected_files)
            /\ out' = [out EXCEPT !.legend = runs]
            /\ run_writes' = [run_writes EXCEPT !.legend = Append(@, LegendOf(color_map'))]
            /\ pc' = "remarks"
            /\ KeepExit
    /\ UNCHANGED <<env, reprompt, disk, runs, writes, kml_files, selected_files, file_metadata,
                   remarks, statistics, document, merge_metadata, idx,
                   total_valid_points, total_mapped_points, processed>>

\* Lines 699-700: one non-empty remark per file, the last one typed for it
get_remarks ==
    /\ pc = "remarks"
    /\ remarks' \in [Range(selected_files) -> Remarks]
    /\ statistics' = <<>>
    /\ pc' = "merge"
    /\ UNCHANGED <<env, reprompt, disk, out, runs, writes, kml_files, selected_files,
                   file_metadata, color_map, document, merge_metadata, idx,
                   total_valid_points, total_mapped_points, exit_status, exit_way,
                   run_writes, processed>>

(***************************************************************************)
(* merge_kml_files                                                         *)
(***************************************************************************)
\* Lines 529-536
MergeStart ==
    /\ pc = "merge"
    /\ document' = [styles |-> define_styles(color_map), placemarks |-> <<>>]
    /\ total_valid_points' = 0
    /\ merge_metadata' = [f \in Range(selected_files) |-> extract_file_metadata(disk[f])]
    /\ idx' = 1
    /\ pc' = "merge_loop"
    /\ UNCHANGED <<env, reprompt, disk, out, runs, writes, kml_files, selected_files,
                   file_metadata, color_map, remarks, statistics,
                   total_mapped_points, exit_status, exit_way, run_writes, processed>>

\* f"#{file}"
StyleUrl(file) == <<"#", file>>

\* Lines 545-554
\* Mutant of StatisticsRow: mapped_points is taken from the timestamp count.
StatisticsRowStamped(file, res) ==
    [file |-> file,
     total_points |-> res.total_points,
     points_with_timestamps |-> res.points_with_timestamps,
     valid_points |-> Len(res.valid_points),
     mapped_points |-> res.points_with_timestamps,
     remark |-> remarks[file],
     color |-> Lookup(color_map, file),
     sha256 |-> merge_metadata[file].sha256,
     file_size |-> merge_metadata[file].file_size]

StatisticsRow(file, res) ==
    [file |-> file,
     total_points |-> res.total_points,
     points_with_timestamps |-> res.points_with_timestamps,
     valid_points |-> Len(res.valid_points),
     mapped_points |-> Len(res.valid_points),
     remark |-> remarks[file],
     color |-> Lookup(color_map, file),
     sha256 |-> merge_metadata[file].sha256,
     file_size |-> merge_metadata[file].file_size]

\* Lines 557-571
PlacemarkOf(file, point) ==
    [styleUrl |-> StyleUrl(file),
     coordinates |-> point.lon_lat,
     description |-> point.description,
     when |-> point.timestamp,
     name |-> point.name]

\* One iteration of the for loop of lines 538-571
MergeFile ==
    /\ pc = "merge_loop"
    /\ idx <= Len(selected_files)
    /\ LET file == selected_files[idx]
           res == process_kml_file(disk[file], remarks[file])
       IN  IF Propagates(disk[file], remarks[file])
           THEN /\ Exit(ExitStatus("crash"), "crash")
                /\ UNCHANGED <<processed, total_valid_points, statistics,
                               document, idx>>
           ELSE /\ processed' = Append(processed, calculate_file_hash(disk[file]))
                /\ IF validate_file_path(file)
                   THEN /\ total_valid_points' =
                             total_valid_points + Len(res.valid_points)
                        /\ statistics' = Append(statistics, StatisticsRow(file, res))
                        /\ document' =
                             [document EXCEPT !.placemarks =
                                 @ \o [k \in 1..Len(res.valid_points) |->
                                         PlacemarkOf(file, res.valid_points[k])]]
                   ELSE UNCHANGED <<total_valid_points, statistics, document>>
                /\ idx' = idx + 1
                /\ UNCHANGED pc
                /\ KeepExit
    /\ UNCHANGED <<env, reprompt, disk, out, runs, writes, kml_files, selected_files,
                   file_metadata, color_map, remarks, merge_metadata,
                   total_mapped_points, run_writes>>

RECURSIVE SumValid(_, _)
SumValid(stats, n) ==
    IF n = 0 THEN 0 ELSE SumValid(stats, n - 1) + stats[n].valid_points

\* Mutant of MergeWrite: the file is written inside the for loop.
MergeWriteEarly ==
    /\ pc = "merge_loop"
    /\ out' = [out EXCEPT !.merged = runs]
    /\ run_writes' = [run_writes EXCEPT !.merged = Append(@, document)]
    /\ total_mapped_points' = SumValid(statistics, Len(statistics))
    /\ pc' = "map"
    /\ UNCHANGED <<env, reprompt, disk, runs, writes, kml_files, selected_files,
                   file_metadata, color_map, remarks, statistics, document,
                   merge_metadata, idx, total_valid_points, exit_status, exit_way,
                   processed>>

\* Lines 573-583, and line 703 of main_menu
MergeWrite ==
    /\ pc = "merge_loop"
    /\ idx > Len(selected_files)
    /\ out' = [out EXCEPT !.merged = runs]
    /\ run_writes' = [run_writes EXCEPT !.merged = Append(@, document)]
    /\ total_mapped_points' = SumValid(statistics, Len(statistics))
    /\ pc' = "map"
    /\ UNCHANGED <<env, reprompt, disk, runs, writes, kml_files, selected_files,
                   file_metadata, color_map, remarks, statistics, document,
                   merge_metadata, idx, total_valid_points, exit_status, exit_way,
                   processed>>

(***************************************************************************)
(* create_interactive_map, save_statistics_to_excel, save_statistics_to_csv *)
(***************************************************************************)
\* style_url.strip('#'), color_map.get(style_url, 'gray'), remarks.get(...)
MapRow(pm) ==
    LET file == pm.styleUrl[2]
    IN  [coordinates |-> pm.coordinates, name |-> pm.name,
         color |-> IF file \in Keys(color_map) THEN Lookup(color_map, file)
                   ELSE Hex("gray"),
         remark |-> IF file \in DOMAIN remarks THEN remarks[file] ELSE "No remark",
         description |-> pm.description]

\* Line 705: reads the merged file back
create_interactive_map ==
    /\ pc = "map"
    /\ out.merged = runs
    /\ LET merged == run_writes.merged[Len(run_writes.merged)].placemarks
       IN  run_writes' = [run_writes EXCEPT !.map =
                            Append(@, [k \in 1..Len(merged) |-> MapRow(merged[k])])]
    /\ out' = [out EXCEPT !.map = runs]
    /\ pc' = "excel"
    /\ UNCHANGED <<env, reprompt, disk, runs, writes, locals, exit_status, exit_way, processed>>

\* Line 707: every row gains color_name in place
save_statistics_to_excel ==
    /\ pc = "excel"
    /\ statistics' =
          [k \in 1..Len(statistics) |->
              [field \in DOMAIN statistics[k] \cup {"color_name"} |->
                  IF field = "color_name" THEN ColorName(statistics[k].color)
                  ELSE statistics[k][field]]]
    /\ out' = [out EXCEPT !.excel = runs]
    /\ run_writes' = [run_writes EXCEPT !.excel =
                        Append(@, [summary |-> statistics',
                                   total_valid_points |-> total_valid_points,
                                   total_mapped_points |-> total_mapped_points])]
    /\ pc' = "csv"
    /\ UNCHANGED <<env, reprompt, disk, runs, writes, kml_files, selected_files,
                   file_metadata, color_map, remarks, document, merge_metadata, idx,
                   total_valid_points, total_mapped_points, exit_status, exit_way,
                   processed>>

\* Line 708
save_statistics_to_csv ==
    /\ pc = "csv"
    /\ out' = [out EXCEPT !.csv = runs]
    /\ run_writes' = [run_writes EXCEPT !.csv = Append(@, statistics)]
    /\ pc' = "done"
    /\ UNCHANGED <<env, reprompt, disk, runs, writes, locals, exit_status, exit_way, processed>>

\* Lines 710-712, then the while loop begins again
RunCompleted ==
    /\ pc = "done"
    /\ pc' = "list"
    /\ UNCHANGED <<env, reprompt, disk, out, runs, writes, locals, exit_status, exit_way,
                   run_writes, processed>>

\* Lines 714-717: CTRL+C at any stage
KeyboardInterrupt ==
    /\ Running
    /\ Exit(ExitStatus("interrupt"), "interrupt")
    /\ UNCHANGED <<env, reprompt, disk, out, runs, writes, locals, run_writes, processed>>

(***************************************************************************)
(* The environment: another process rewrites a source file                 *)
(***************************************************************************)
\* (a write after the last extraction of an iteration is read by nothing before
\* the next listing, where the same write is possible).
OutsideWrite ==
    /\ pc \in {"list", "select", "check_existing", "capture", "verify", "assign",
              "remarks", "merge", "merge_loop"}
    /\ writes < MaxWrites
    /\ \E f \in DOMAIN disk : disk' = [disk EXCEPT ![f] = Rewritten(disk[f])]
    /\ writes' = writes + 1
    /\ UNCHANGED <<env, reprompt, out, pc, runs, locals, exit_status, exit_way,
                   run_writes, processed>>

Next ==
    \/ ListFiles
    \/ select_kml_files
    \/ DeclineOverwrite
    \/ check_existing_merged_file
    \/ CaptureMetadata
    \/ VerifyFiles
    \/ assign_colors_to_files
    \/ get_remarks
    \/ MergeStart
    \/ MergeFile
    \/ MergeWrite
    \/ create_interactive_map
    \/ save_statistics_to_excel
    \/ save_statistics_to_csv
    \/ RunCompleted
    \/ KeyboardInterrupt
    \/ OutsideWrite

Spec == Init /\ [][Next]_vars

(***************************************************************************)
(* assign_colors_to_files alone, on lists select_kml_files does and does   *)
(* not hand it: main_menu at line 698, in its first iteration or in a      *)
(* second one after the files 1 and 2 have been merged.                    *)
(***************************************************************************)
AssignLists ==
    UNION {[1..m -> 1..MaxAssign] : m \in 1..MaxAssign}
    \cup {[i \in 1..k |-> i] : k \in 1..(MAX_KML_FILES + 1)}

InitAssign ==
    /\ dir_files = [i \in 1..(MAX_KML_FILES + 1) |-> i]
    /\ disk = [f \in Range(dir_files) |-> InitialContent(f)]
    /\ islink = [f \in Range(dir_files) |-> FALSE]
    /\ cwd_in_base = TRUE
    /\ pc = "assign"
    /\ writes = 0
    /\ kml_files = dir_files
    /\ selected_files \in AssignLists
    /\ file_metadata = [f \in Range(selected_files) |-> extract_file_metadata(disk[f])]
    /\ \E earlier \in {<<>>, <<1, 2>>} :
          /\ color_map = ColorMapOf(earlier)
          /\ out = IF earlier = <<>> THEN NoOutput ELSE [a \in Artifacts |-> 1]
          /\ runs = IF earlier = <<>> THEN 1 ELSE 2
    /\ remarks = <<>>
    /\ statistics = <<>>
    /\ document = EmptyDocument
    /\ merge_metadata = <<>>
    /\ idx = 0
    /\ total_valid_points = 0
    /\ total_mapped_points = 0
    /\ exit_status = -1
    /\ exit_way = ""
    /\ run_writes = NoWrites
    /\ processed = <<>>
    /\ reprompt = ""

NextAssign == assign_colors_to_files

SpecAssign == InitAssign /\ [][NextAssign]_vars

(***************************************************************************)
(* Properties                                                              *)
(***************************************************************************)
Merging == pc \in {"merge_loop", "map", "excel", "csv", "done"}

\* The for loop of merge_kml_files has run over every selected source.
AllFolded ==
    /\ idx = Len(selected_files) + 1
    /\ Len(processed) = Len(selected_files)

\* C1: every statistics row has valid_points <= total_points and
\* points_with_timestamps <= total_points.
C1_RowsWithinTotal ==
    \A k \in 1..Len(statistics) :
        /\ statistics[k].valid_points <= statistics[k].total_points
        /\ statistics[k].points_with_timestamps <= statistics[k].total_points

\* C2: merging A (one placemark with coordinates and a parseable TimeStamp)
\* and B (one placemark without a coordinates element) gives one placemark,
\* A's, the row 1/1/1 for A and the row 1/0/0 for B.
ScenarioMerged ==
    /\ pc = "map"
    /\ selected_files = <<1, 2>>
    /\ processed = <<calculate_file_hash(Content(<<pmA>>, FALSE)),
                     calculate_file_hash(Content(<<pmB>>, FALSE))>>
    /\ validate_file_path(1)
    /\ validate_file_path(2)

C2_ScenarioRows ==
    ScenarioMerged =>
        /\ Len(document.placemarks) = 1
        /\ document.placemarks[1].styleUrl = StyleUrl(1)
        /\ Len(statistics) = 2
        /\ statistics[1].file = 1
        /\ statistics[1].total_points = 1
        /\ statistics[1].valid_points = 1
        /\ statistics[1].points_with_timestamps = 1
        /\ statistics[2].file = 2
        /\ statistics[2].total_points = 1
        /\ statistics[2].valid_points = 0
        /\ statistics[2].points_with_timestamps = 0

\* C3: no iteration completes with a merged document built from content
\* whose digest differs from the one verify_file_integrity checked: every
\* source folded into the document was extracted from the verified content.
C3_MergedContentVerified ==
    pc = "done" =>
        \A i \in 1..Len(selected_files) :
            validate_file_path(selected_files[i]) =>
                processed[i] = file_metadata[selected_files[i]].sha256

\* C6: the list handed to merge_kml_files has at least 2 and at most
\* MAX_KML_FILES entries.
C6_SelectionSize ==
    pc = "merge" =>
        /\ Len(selected_files) <= MAX_KML_FILES
        /\ Len(selected_files) >= 2

\* C9: the exit status of a user-initiated abort ('e', CTRL+C), of an
\* integrity-check abort and of an end without abort are pairwise different.
CleanStatus == 0

C9_StatusDistinguishes ==
    pc = "exited" =>
        /\ exit_way \in {"user", "interrupt"} =>
              /\ exit_status # CleanStatus
              /\ exit_status # ExitStatus("integrity")
        /\ exit_way = "integrity" => exit_status # CleanStatus

\* C4: after verify_file_integrity has failed, this iteration has written no
\* output artifact, those of earlier iterations stay as they are, and the
\* process takes no further step.
C4_NoOutputAfterIntegrityFailure ==
    exit_way = "integrity" =>
        /\ run_writes = NoWrites
        /\ \A a \in Artifacts : out[a] # runs
        /\ ~ENABLED Next

C4_Witness ==
    /\ exit_way = "integrity"
    /\ runs = 2
    /\ out.merged = 1
    /\ out.legend = 1

\* C7: a source is excluded by the path check exactly if it is a symbolic
\* link or outside the base directory.  The statistics rows are those of the
\* selected entries that pass, in order, and the placemarks of the document
\* are all retained points of those entries.
PathPasses(file) == ~islink[file] /\ cwd_in_base

Retained(i) ==
    process_kml_file(processed[i].sha256, remarks[selected_files[i]]).valid_points

RECURSIVE ExpectedRows(_)
ExpectedRows(n) ==
    IF n = 0 THEN <<>>
    ELSE IF PathPasses(selected_files[n])
    THEN Append(ExpectedRows(n - 1),
                [file |-> selected_files[n], valid_points |-> Len(Retained(n))])
    ELSE ExpectedRows(n - 1)

RECURSIVE ExpectedPlacemarks(_)
ExpectedPlacemarks(n) ==
    IF n = 0 THEN <<>>
    ELSE IF PathPasses(selected_files[n])
    THEN ExpectedPlacemarks(n - 1)
            \o [k \in 1..Len(Retained(n)) |-> PlacemarkOf(selected_files[n], Retained(n)[k])]
    ELSE ExpectedPlacemarks(n - 1)

C7_FailingPathExcluded ==
    Merging =>
        /\ [k \in 1..Len(statistics) |->
              [file |-> statistics[k].file, valid_points |-> statistics[k].valid_points]]
           = ExpectedRows(Len(processed))
        /\ document.placemarks = ExpectedPlacemarks(Len(processed))

C7_Witness ==
    /\ pc = "done"
    /\ \E i, j \in 1..Len(selected_files) :
          /\ ~PathPasses(selected_files[i])
          /\ PathPasses(selected_files[j])
          /\ Len(Retained(j)) >= 1
    /\ Len(statistics) = 1
    /\ Len(document.placemarks) >= 1

\* C8: in the document merge_kml_files builds and writes, every placemark's
\* styleUrl names a Style element of the document, and the document has
\* exactly one Style element per source of color_map.
StylesConsistent(doc) ==
    /\ \A k \in 1..Len(doc.placemarks) :
          /\ doc.placemarks[k].styleUrl[1] = "#"
          /\ \E j \in 1..Len(doc.styles) : doc.styles[j].id = doc.placemarks[k].styleUrl[2]
    /\ \A file \in Keys(color_map) :
          Cardinality({j \in 1..Len(doc.styles) : doc.styles[j].id = file}) = 1
    /\ \A j \in 1..Len(doc.styles) : doc.styles[j].id \in Keys(color_map)

C8_StyleReferencesResolve ==
    Merging =>
        /\ StylesConsistent(document)
        /\ \A w \in 1..Len(run_writes.merged) : StylesConsistent(run_writes.merged[w])

C8_Witness ==
    /\ pc = "map"
    /\ run_writes.merged = <<document>>
    /\ Len(document.styles) = 2
    /\ Len(document.placemarks) >= 1
    /\ \E i \in 1..Len(selected_files) : ~PathPasses(selected_files[i])

\* C10 as claimed: the legend file and the merged marker file are written
\* once per iteration, each only after every selected source has been folded.
WrittenOnce ==
    /\ Len(run_writes.legend) <= 1
    /\ Len(run_writes.merged) <= 1
    /\ pc = "done" => Len(run_writes.legend) = 1 /\ Len(run_writes.merged) = 1

C10_WritesAfterFold ==
    /\ WrittenOnce
    /\ run_writes.legend # <<>> => AllFolded
    /\ run_writes.merged # <<>> => AllFolded

\* C10 as amended: both files are written once per iteration; the merged
\* marker file only after every selected source has been folded, and it holds
\* the folded document; the legend file before the first source is extracted.
C10_MergedAfterFoldLegendBefore ==
    /\ WrittenOnce
    /\ run_writes.merged # <<>> => AllFolded /\ run_writes.merged = <<document>>
    /\ (processed # <<>> \/ pc \in {"remarks", "merge"} \/ Merging) =>
            run_writes.legend = <<LegendOf(color_map)>>
    /\ pc \in {"list", "select", "check_existing", "capture", "verify", "assign"} =>
            run_writes.legend = <<>> \/ AllFolded

C10_Witness ==
    /\ pc = "done"
    /\ Len(selected_files) >= 2
    /\ Len(run_writes.legend) = 1
    /\ Len(run_writes.merged) = 1
    /\ Len(run_writes.merged[1].placemarks) >= 1

\* C5 as claimed: for a list of k <= 10 sources the mapping has k distinct
\* colors, the source at position i has the i-th palette color, and that is
\* what the legend file holds; for a longer list the call fails and leaves
\* the mapping assigned before and the legend file as they were.
PaletteOrder ==
    /\ Len(color_map) = Len(selected_files)
    /\ Cardinality({color_map[i].val : i \in 1..Len(color_map)}) = Len(selected_files)
    /\ \A i \in 1..Len(selected_files) :
          Lookup(color_map, selected_files[i]) = COLORS[i].hex
    /\ run_writes.legend = <<LegendOf(color_map)>>

FailurePreserves ==
    (pc = "assign" /\ Len(selected_files) > MAX_KML_FILES) =>
        /\ pc' = "exited"
        /\ exit_way' = "crash"
        /\ color_map' = color_map
        /\ out' = out
        /\ run_writes' = run_writes

C5_PaletteOrder ==
    /\ [](pc = "remarks" => PaletteOrder)
    /\ [][FailurePreserves]_vars

\* C5 as amended: the same, for a list of pairwise different sources.
PairwiseDifferent(files) ==
    \A i, j \in 1..Len(files) : i # j => files[i] # files[j]

C5_PaletteOrderOfDifferentSources ==
    /\ []((pc = "remarks" /\ PairwiseDifferent(selected_files)) => PaletteOrder)
    /\ [][FailurePreserves]_vars

C5_Witness ==
    /\ pc = "exited"
    /\ exit_way = "crash"
    /\ Len(selected_files) = MAX_KML_FILES + 1
    /\ color_map = ColorMapOf(<<1, 2>>)
    /\ out.legend = 1

(***************************************************************************)
(* merge_kml_files over arbitrary file contents: the state of main_menu    *)
(* when merge_kml_files is called (line 701) in the first iteration, for   *)
(* two selected sources, one of which holds any bounded content.           *)
(***************************************************************************)
MaxPlacemarks == 3     \* placemarks of a file, coordinates of every kind
MaxStamped == 1        \* placemarks of a file, timestamp texts of every kind

Texts == {Text(utc, parses) : utc \in BOOLEAN, parses \in BOOLEAN}

CoordKinds ==
    {Placemark(when, Plain, Plain, coords) :
        when \in {"none", "good"},
        coords \in {"none", "empty", "short", "nonnum", "ok"}}

StampKinds ==
    {Placemark(when, name, desc, "ok") :
        when \in {"none", "bad", "good"}, name \in Texts, desc \in Texts}

SeqsUpTo(S, n) == UNION {[1..m -> S] : m \in 0..n}

CoordContents ==
    {Content(pms, broken) :
        pms \in SeqsUpTo(CoordKinds, MaxPlacemarks), broken \in BOOLEAN}

StampContents == {Content(pms, FALSE) : pms \in SeqsUpTo(StampKinds, MaxStamped)}

\* The source of arbitrary content and its sibling.
Varied == 1
Sibling == 3

InitExtract ==
    /\ dir_files = <<1, 2, 3>>
    /\ \E content \in CoordContents \cup StampContents :
          disk = [f \in Range(dir_files) |->
                    IF f = Varied THEN content ELSE InitialContent(f)]
    /\ islink = [f \in Range(dir_files) |-> FALSE]
    /\ cwd_in_base = TRUE
    /\ pc = "merge"
    /\ runs = 1
    /\ writes = 0
    /\ kml_files = dir_files
    /\ selected_files \in {<<Varied, Sibling>>, <<Sibling, Varied>>}
    /\ file_metadata = [f \in Range(selected_files) |-> extract_file_metadata(disk[f])]
    /\ color_map = ColorMapOf(selected_files)
    /\ \E remark \in (IF disk[Varied] \in StampContents
                       THEN {"phone", "UTC+1"} ELSE {"phone"}) :
          remarks = [f \in Range(selected_files) |->
                        IF f = Varied THEN remark ELSE "phone"]
    /\ statistics = <<>>
    /\ document = EmptyDocument
    /\ merge_metadata = <<>>
    /\ idx = 0
    /\ total_valid_points = 0
    /\ total_mapped_points = 0
    /\ exit_status = -1
    /\ exit_way = ""
    /\ out = [NoOutput EXCEPT !.legend = 1]
    /\ run_writes = [NoWrites EXCEPT !.legend = <<LegendOf(color_map)>>]
    /\ processed = <<>>
    /\ reprompt = ""

NextExtract == MergeStart \/ MergeFile \/ MergeWrite

SpecExtract == InitExtract /\ [][NextExtract]_vars

(***************************************************************************)
(* Failures of one source                                                  *)
(***************************************************************************)
\* The placemark at k ends the for loop with an exception: an empty
\* coordinates element, coordinates that are no numbers, or no coordinates
\* element when no placemark before it had one.
RaisesAt(pms, k) ==
    \/ pms[k].coords \in {"empty", "nonnum"}
    \/ /\ pms[k].coords = "none"
       /\ \A j \in 1..(k - 1) : pms[j].coords = "none"

\* The position of the first such placemark, Len(pms) + 1 if there is none.
FirstRaise(pms) ==
    IF \E k \in 1..Len(pms) : RaisesAt(pms, k)
    THEN CHOOSE k \in 1..Len(pms) :
            RaisesAt(pms, k) /\ \A j \in 1..(k - 1) : ~RaisesAt(pms, j)
    ELSE Len(pms) + 1

Stamped(pm, remark) ==
    RecoverTimestamp(pm, PrefixedName(remark, pm.name),
                     clean_html_tags(pm.desc, pm.tagged)) # None

\* What the counters hold when the failure (or the end of the file) is
\* reached: the placemarks before it that were retained, and the timestamps
\* recovered up to it.
CountsBefore(content, remark) ==
    LET pms == content.pms
        stop == FirstRaise(pms)
        reached == {k \in 1..Len(pms) : k <= stop}
    IN  [retained |-> Cardinality({k \in reached : k < stop /\ pms[k].coords = "ok"}),
         stamped |-> Cardinality({k \in reached : Stamped(pms[k], remark)})]

FromSibling(pm) == pm.styleUrl = StyleUrl(Sibling)

\* What the sibling (one placemark with coordinates and a timestamp in its
\* description, then one without coordinates) contributes to a clean merge.
SiblingPlacemarks ==
    <<[styleUrl |-> StyleUrl(Sibling), coordinates |-> 1,
       description |-> clean_html_tags(Text(TRUE, TRUE), TRUE),
       when |-> "description", name |-> PrefixedName("phone", Plain)]>>

\* C11: a source whose extraction stops on an exception (malformed XML or an
\* exception raised while a placemark is handled) does not end the process:
\* the source gets its statistics row with the counts reached before the
\* failure, and the other source gets the row and the placemarks it gets
\* in a clean merge.
C11_FailureContained ==
    /\ exit_way # "crash"
    /\ Merging =>
          /\ Len(statistics) = Len(processed)
          /\ \A i \in 1..Len(processed) :
                LET expected == CountsBefore(processed[i].sha256,
                                            remarks[selected_files[i]])
                IN  /\ statistics[i].file = selected_files[i]
                    /\ statistics[i].total_points = expected.retained
                    /\ statistics[i].valid_points = expected.retained
                    /\ statistics[i].points_with_timestamps = expected.stamped
          /\ (\E i \in 1..Len(processed) : selected_files[i] = Sibling)
                => SelectSeq(document.placemarks, FromSibling) = SiblingPlacemarks

\* The first source has retained a point, then raised ValueError; the
\* sibling was folded after it.
C11_Witness ==
    /\ pc = "map"
    /\ selected_files = <<Varied, Sibling>>
    /\ RaisedIn(disk[Varied], remarks[Varied]) = "ValueError"
    /\ statistics[1].valid_points = 1
    /\ statistics[2].valid_points = 1
    /\ Len(document.placemarks) = 2

(***************************************************************************)
(* select_kml_files with up to MAX_KML_FILES + 1 available files: the state *)
(* of main_menu when select_kml_files is called (line 685), and selections *)
(* of up to MAX_KML_FILES + 1 tokens.                                      *)
(***************************************************************************)
\* Selections "1,2,...,m" (the available files in order, the last one again
\* when they run out), followed or not by one more token.
LongSelections(n) ==
    {[kind |-> "list",
      tokens |-> [i \in 1..m |-> IF i = m /\ last # 0 THEN last
                                 ELSE IF i <= n THEN i ELSE n]] :
        m \in 1..(MAX_KML_FILES + 1), last \in {0, -1, n + 1}}

\* What the operator can type: 'e', nothing, something else than digits,
\* commas and blanks, the long selections, and the selections of up to
\* MaxTokens tokens that are no number (-1) or a number at or next to the ends
\* of the valid range.
LimitSelections(n) ==
    {[kind |-> k, tokens |-> <<>>] : k \in {"e", "empty", "bad"}}
    \cup LongSelections(n)
    \cup {[kind |-> "list", tokens |-> t] :
            t \in UNION {[1..m -> {-1, 0, 1, n, n + 1}] : m \in 1..MaxTokens}}

select_at_limits ==
    \E selection \in LimitSelections(Len(kml_files)) : SelectFiles(selection)

InitSelect ==
    /\ \E n \in 1..(MAX_KML_FILES + 1) : dir_files = [i \in 1..n |-> i]
    /\ disk = [f \in Range(dir_files) |-> InitialContent(f)]
    /\ \E linked \in BOOLEAN : islink = [f \in Range(dir_files) |-> linked /\ f = 1]
    /\ cwd_in_base = TRUE
    /\ out = NoOutput
    /\ pc = "select"
    /\ runs = 1
    /\ writes = 0
    /\ kml_files = dir_files
    /\ selected_files = <<>>
    /\ file_metadata = <<>>
    /\ color_map = <<>>
    /\ remarks = <<>>
    /\ statistics = <<>>
    /\ document = EmptyDocument
    /\ merge_metadata = <<>>
    /\ idx = 0
    /\ total_valid_points = 0
    /\ total_mapped_points = 0
    /\ exit_status = -1
    /\ exit_way = ""
    /\ run_writes = NoWrites
    /\ processed = <<>>
    /\ reprompt = ""

NextSelect == select_at_limits

SpecSelect == InitSelect /\ [][NextSelect]_vars

\* A selection of the kinds the operator can mistype: not only digits, commas
\* and blanks; a token that is no number (as the empty token between two
\* commas); an index out of range; fewer than 2 or more than 10 entries.
BadSelection(selection, available) ==
    \/ selection.kind = "bad"
    \/ /\ selection.kind = "list"
       /\ \/ \E i \in 1..Len(selection.tokens) :
                selection.tokens[i] \notin 1..Len(available)
          \/ Len(selection.tokens) < 2
          \/ Len(selection.tokens) > MAX_KML_FILES

\* C12: a pass of select_kml_files over a bad selection raises nothing, ends
\* nothing and selects nothing: the next state is the selection prompt again,
\* after a complaint.
C12_BadSelectionReprompts ==
    [][\A selection \in LimitSelections(Len(kml_files)) :
          (BadSelection(selection, kml_files) /\ SelectFiles(selection))
             => /\ pc' = "select"
                /\ reprompt' # ""
                /\ exit_status' = -1
                /\ selected_files' = <<>>]_vars

\* Eleven files were selected of eleven available ones, and the prompt is
\* shown again.
C12_Witness ==
    /\ pc = "select"
    /\ Len(kml_files) = MAX_KML_FILES + 1
    /\ reprompt = "too_many"
    /\ selected_files = <<>>
    /\ exit_status = -1

(***************************************************************************)
(* Timestamp recovery                                                      *)
(***************************************************************************)
\* The first of the three sources that normalizes: TimeStamp/when, the
\* display name if it holds "UTC", the cleaned description if it holds "UTC".
FirstThatNormalizes(pm, remark) ==
    IF pm.when = "good" THEN "when"
    ELSE IF NameHasUTC(PrefixedName(remark, pm.name)) /\ pm.name.parses THEN "name"
    ELSE IF pm.desc.utc /\ pm.desc.parses THEN "description"
    ELSE None

\* C13: every placemark of the merged document carries the timestamp of the
\* first of TimeStamp/when, display name (if it holds "UTC") and cleaned
\* description (if it holds "UTC") that parses; the description is used also
\* when the display name holds "UTC" and does not parse.
C13_FirstSourceThatNormalizes ==
    \A k \in 1..Len(document.placemarks) :
        LET placemark == document.placemarks[k]
            file == placemark.styleUrl[2]
            source == disk[file].pms[placemark.coordinates]
        IN  placemark.when = FirstThatNormalizes(source, remarks[file])

(***************************************************************************)
(* Placemarks without usable coordinates                                   *)
(***************************************************************************)
\* The placemark at position k of the file was appended to the document.
RetainedAt(file, k) ==
    \E n \in 1..Len(document.placemarks) :
        /\ document.placemarks[n].styleUrl = StyleUrl(file)
        /\ document.placemarks[n].coordinates = k

\* C14: a placemark without a coordinates element, or with fewer than two
\* numeric components, is left out and the extraction goes on: every
\* placemark of a folded file that has usable coordinates is counted and
\* retained, wherever the unusable ones stand.
C14_UsablePlacemarksRetained ==
    Merging =>
        \A i \in 1..Len(statistics) :
            LET file == statistics[i].file
                pms == disk[file].pms
                usable == {k \in 1..Len(pms) : pms[k].coords = "ok"}
            IN  /\ statistics[i].total_points = Cardinality(usable)
                /\ \A k \in usable : RetainedAt(file, k)

(***************************************************************************)
(* Totals                                                                  *)
(***************************************************************************)
RECURSIVE SumMapped(_, _)
SumMapped(stats, n) ==
    IF n = 0 THEN 0 ELSE SumMapped(stats, n - 1) + stats[n].mapped_points

\* merge_kml_files has returned and main_menu has computed the totals.
TotalsComputed == pc \in {"map", "excel", "csv", "done"}

\* C15: after merge_kml_files and the totals of main_menu, every statistics
\* row has mapped_points = valid_points, and the mapped points of all rows, the
\* total of mapped points, the total of valid points and the number of
\* placemarks of the merged document are the same number.
C15_MappedEqualsValid ==
    TotalsComputed =>
        /\ \A k \in 1..Len(statistics) :
              statistics[k].mapped_points = statistics[k].valid_points
        /\ SumMapped(statistics, Len(statistics)) = total_mapped_points
        /\ total_mapped_points = total_valid_points
        /\ total_valid_points = Len(document.placemarks)

\* Two sources were folded, one was not (its path check failed), and the
\* folded ones gave placemarks.
C15_Witness ==
    /\ pc = "done"
    /\ Len(selected_files) > Len(statistics)
    /\ Len(statistics) > 0
    /\ total_mapped_points > 0
    /\ Len(document.placemarks) = total_mapped_points
====
